---- MODULE Spec2Model ----
(***************************************************************************)
(* A model of openstack/cloud/_coe.py (CoeCloudMixin): the cluster and the *)
(* cluster-template operations over an upstream container-infrastructure   *)
(* service with a memoised list per resource kind, and the three response  *)
(* normalizers.                                                            *)
(*                                                                         *)
(* Identifiers are small integers.  The upstream entity with id i carries  *)
(* the name NameOf(i), so a name_or_id argument can hit an entity by its   *)
(* id, by its name, or hit nothing; names are unique upstream, hence the   *)
(* "multiple matches" branch of the resolver cannot arise and is left out. *)
(* The optional `filters` argument is always None and `detail` keeps its   *)
(* default, so each list has a single cache key.                           *)
(*                                                                         *)
(* The cluster operations and the template operations share no state (two  *)
(* upstream collections, two caches).  A behaviour of Spec exercises one   *)
(* resource kind, named by `kind`; the other kind's state stays as built.  *)
(*                                                                         *)
(* The client makes one call at a time.  A call is one step for each       *)
(* upstream request it waits on after its first: list, search, get and     *)
(* create are one step; delete and update, once they have resolved their   *)
(* entity, take a second step for the write request, and other parties may *)
(* change upstream between the two.                                        *)
(***************************************************************************)
EXTENDS Integers, Sequences, FiniteSets, TLC

VARIABLES
    clusters,        \* upstream: the clusters the service holds
    cluster_cache,   \* the client's memo of list_coe_clusters
    templates,       \* upstream: the cluster templates the service holds
    template_cache,  \* the client's memo of list_cluster_templates
    last,            \* the last call: its arguments, outcome and upstream calls
    window,          \* upstream list-clusters calls and lists seen since the last cluster write
    kind,            \* the resource kind this behaviour exercises
    norm             \* the last normalizer call: input, caller's record after it, outcome

vars == <<clusters, cluster_cache, templates, template_cache, last, window, kind, norm>>

---------------------------------------------------------------------------
(* Bounds *)

\* Number of identifiers (ids, and as many names) upstream can hold.
MaxIdent == 2
\* Cap of the counter of upstream list calls in `window`.
MaxFetch == 2
\* Largest number of schema keys an input record of a normalizer lacks.
MaxMissing == 1

Ids == 1 .. MaxIdent
NameOf(i) == MaxIdent + i
IdOf(name) == name - MaxIdent
Names == {NameOf(i) : i \in Ids}
\* What a caller may pass as name_or_id: an id, a name, or 2*MaxIdent+1, which
\* is neither.
NameOrIds == 1 .. (2 * MaxIdent + 1)
\* Values of the attribute an update changes (node_count, docker_volume_size).
Sizes == {1, 2}

None == [none |-> TRUE]
NoError == [type |-> "", message |-> <<"", 0, "">>]
UpstreamError == [type |-> "OpenStackCloudException", message |-> <<"upstream", 0, "">>]

Cluster(i, n) == [id |-> i, name |-> NameOf(i), node_count |-> n]
Template(i, n) == [id |-> i, name |-> NameOf(i), docker_volume_size |-> n]

UniqueIds(S) == \A a \in S : \A b \in S : a.id = b.id => a = b
ClusterLists == {S \in SUBSET {Cluster(i, n) : i \in Ids, n \in Sizes} : UniqueIds(S)}
TemplateLists == {S \in SUBSET {Template(i, n) : i \in Ids, n \in Sizes} : UniqueIds(S)}

---------------------------------------------------------------------------
(* The collaborators of the mixin that live outside _coe.py *)

\* The SDK proxy's list request: the upstream collection, or the request
\* fails upstream (`fails`: the service refuses or cannot be reached).
proxy_list(upstream, fails) ==
    IF fails
    THEN [ok |-> FALSE, value |-> {}]
    ELSE [ok |-> TRUE, value |-> upstream]

\* _utils.cache_on_arguments: the memo is empty or holds the value of the last
\* computation; a call returns the held value without computing, or computes
\* (one upstream call) and holds and returns the value, or, the computation
\* having raised, holds nothing and lets the exception through.
EmptyCache == [valid |-> FALSE, value |-> {}]

cache_on_arguments(cache, computed, call) ==
    IF cache.valid
    THEN [ret |-> cache.value, raised |-> NoError, cache |-> cache, calls |-> <<>>]
    ELSE IF ~computed.ok
    THEN [ret |-> None, raised |-> UpstreamError, cache |-> cache,
          calls |-> <<call>>]
    ELSE [ret |-> computed.value, raised |-> NoError,
          cache |-> [valid |-> TRUE, value |-> computed.value],
          calls |-> <<call>>]

\* <cached method>.invalidate(self)
invalidate(cache) == EmptyCache

\* _utils._filter_list(data, name_or_id, None): the entries whose id or name
\* is name_or_id.
filter_list(data, name_or_id) ==
    {e \in data : e.id = name_or_id \/ e.name = name_or_id}

\* _utils._get_entity: the single match of search_<resource>s, or None.
get_entity(found) ==
    IF found = {} THEN None ELSE CHOOSE e \in found : TRUE

\* The SDK proxy's create: a fresh entity under the requested name, or a
\* failure when the name is taken or the request fails upstream (`fails`).
proxy_create(upstream, entity, fails) ==
    IF fails \/ \E e \in upstream : e.name = entity.name
    THEN [ok |-> FALSE, upstream |-> upstream]
    ELSE [ok |-> TRUE, upstream |-> upstream \cup {entity}]

\* The SDK proxy's delete (ignore_missing): the entity with that id is gone,
\* also when upstream no longer held it; or the request fails upstream
\* (`fails`: the service refuses or cannot be reached) and nothing changes.
proxy_delete(upstream, entity, fails) ==
    IF fails
    THEN [ok |-> FALSE, upstream |-> upstream]
    ELSE [ok |-> TRUE, upstream |-> {e \in upstream : e.id # entity.id}]

Count(calls, call) == Cardinality({i \in DOMAIN calls : calls[i] = call})

---------------------------------------------------------------------------
(* Cluster operations, as functions of the client and upstream state *)

\* A failure of the list request (docstring lines 37-38) is not caught at
\* any level: list, search and get, and the delete and update that resolve
\* through get, end in it.
list_coe_clusters(cache, upstream, fails) ==
    cache_on_arguments(cache, proxy_list(upstream, fails), "clusters")

\* search_coe_clusters as it would be if it asked upstream itself instead of
\* going through list_coe_clusters().
search_coe_clusters_uncached(cache, upstream, name_or_id, fails) ==
    LET coe_clusters == proxy_list(upstream, fails)
    IN  IF ~coe_clusters.ok
        THEN [ret |-> None, raised |-> UpstreamError, cache |-> cache,
              calls |-> <<"clusters">>, listed |-> None]
        ELSE [ret |-> filter_list(coe_clusters.value, name_or_id),
              raised |-> NoError, cache |-> cache,
              calls |-> <<"clusters">>, listed |-> coe_clusters.value]

search_coe_clusters(cache, upstream, name_or_id, fails) ==
    LET coe_clusters == list_coe_clusters(cache, upstream, fails)
    IN  IF coe_clusters.raised # NoError
        THEN [ret |-> None, raised |-> coe_clusters.raised,
              cache |-> coe_clusters.cache,
              calls |-> coe_clusters.calls, listed |-> None]
        ELSE [ret |-> filter_list(coe_clusters.ret, name_or_id),
              raised |-> NoError,
              cache |-> coe_clusters.cache,
              calls |-> coe_clusters.calls,
              listed |-> coe_clusters.ret]

get_coe_cluster(cache, upstream, name_or_id, fails) ==
    LET found == search_coe_clusters(cache, upstream, name_or_id, fails)
    IN  IF found.raised # NoError THEN found
        ELSE [found EXCEPT !.ret = get_entity(found.ret)]

\* create_coe_cluster as it would be without line 103, the invalidation.
create_coe_cluster_keeps_cache(cache, upstream, name, node_count, fails) ==
    LET made == proxy_create(upstream, Cluster(IdOf(name), node_count), fails)
    IN  [ret |-> IF made.ok THEN Cluster(IdOf(name), node_count) ELSE None,
         raised |-> IF made.ok THEN NoError ELSE UpstreamError,
         cache |-> cache,
         upstream |-> made.upstream, calls |-> <<"create_cluster">>,
         listed |-> None]

create_coe_cluster(cache, upstream, name, node_count, fails) ==
    LET made == proxy_create(upstream, Cluster(IdOf(name), node_count), fails)
    IN  IF ~made.ok
        THEN [ret |-> None, raised |-> UpstreamError, cache |-> cache,
              upstream |-> upstream, calls |-> <<"create_cluster">>,
              listed |-> None]
        ELSE [ret |-> Cluster(IdOf(name), node_count), raised |-> NoError,
              cache |-> invalidate(cache),
              upstream |-> made.upstream, calls |-> <<"create_cluster">>,
              listed |-> None]

(* delete_* and update_* make two upstream requests, the list request of    *)
(* get_*() and the write.  Each is two operators: the method up to its     *)
(* write request, and the method from its write request on (..._finish),   *)
(* applied to the memo and the upstream collection as they are by then.    *)
(* pc tells whether the method is over ("done") or about to send the write *)
(* request ("resolved").  A failure of the list request leaves the method  *)
(* from the get_*() line, before anything else is done.                    *)

\* delete_coe_cluster as it would be if it signalled not-found the way
\* update_coe_cluster does, by raising.
delete_coe_cluster_raising(cache, upstream, name_or_id, fails) ==
    LET cluster == get_coe_cluster(cache, upstream, name_or_id, fails)
    IN  IF cluster.raised # NoError
        THEN [pc |-> "done", cluster |-> None, ret |-> None,
              raised |-> cluster.raised, cache |-> cluster.cache,
              calls |-> cluster.calls, listed |-> None]
        ELSE [pc |-> IF cluster.ret = None THEN "done" ELSE "resolved",
              cluster |-> cluster.ret, ret |-> FALSE,
              raised |-> IF cluster.ret # None THEN NoError
                         ELSE [type |-> "OpenStackCloudException",
                               message |-> <<"COE cluster ", name_or_id, " not found.">>],
              cache |-> cluster.cache,
              calls |-> cluster.calls, listed |-> cluster.listed]

\* delete_coe_cluster, lines 116-124: resolve, and return False on not-found.
delete_coe_cluster(cache, upstream, name_or_id, fails) ==
    LET cluster == get_coe_cluster(cache, upstream, name_or_id, fails)
    IN  IF cluster.raised # NoError
        THEN [pc |-> "done", cluster |-> None, ret |-> None,
              raised |-> cluster.raised, cache |-> cluster.cache,
              calls |-> cluster.calls, listed |-> None]
        ELSE [pc |-> IF cluster.ret = None THEN "done" ELSE "resolved",
              cluster |-> cluster.ret, ret |-> FALSE, raised |-> NoError,
              cache |-> cluster.cache,
              calls |-> cluster.calls, listed |-> cluster.listed]

\* delete_coe_cluster, lines 126-128: delete upstream, invalidate, return True;
\* a failure of the delete request propagates from line 126, the invalidation
\* of line 127 not reached.
delete_coe_cluster_finish(cache, upstream, cluster, fails) ==
    LET deleted == proxy_delete(upstream, cluster, fails)
    IN  IF ~deleted.ok
        THEN [ret |-> None, raised |-> UpstreamError,
              cache |-> cache, upstream |-> deleted.upstream,
              calls |-> <<"delete_cluster">>]
        ELSE [ret |-> TRUE, raised |-> NoError,
              cache |-> invalidate(cache), upstream |-> deleted.upstream,
              calls |-> <<"delete_cluster">>]

\* The SDK proxy's update_cluster: the upstream record with the id of
\* `cluster` takes the new attribute; a failure when upstream holds none or
\* the request fails upstream (`fails`).
proxy_update_cluster(upstream, cluster, node_count, fails) ==
    IF ~fails /\ \E e \in upstream : e.id = cluster.id
    THEN [ok |-> TRUE,
          entity |-> Cluster(cluster.id, node_count),
          upstream |-> {IF e.id = cluster.id THEN Cluster(e.id, node_count) ELSE e
                        : e \in upstream}]
    ELSE [ok |-> FALSE, entity |-> None, upstream |-> upstream]

\* update_coe_cluster as it would be without line 140, the invalidation.
update_coe_cluster_stale(cache, upstream, name_or_id, fails) ==
    LET cluster == get_coe_cluster(cache, upstream, name_or_id, fails)
    IN  IF cluster.raised # NoError
        THEN [pc |-> "done", cluster |-> None, ret |-> None,
              raised |-> cluster.raised, cache |-> cluster.cache,
              calls |-> cluster.calls, listed |-> None]
        ELSE [pc |-> IF cluster.ret = None THEN "done" ELSE "resolved",
              cluster |-> cluster.ret, ret |-> None,
              raised |-> IF cluster.ret # None THEN NoError
                         ELSE [type |-> "OpenStackCloudException",
                               message |-> <<"COE cluster ", name_or_id, " not found.">>],
              cache |-> cluster.cache,
              calls |-> cluster.calls, listed |-> cluster.listed]

\* update_coe_cluster, lines 140-144: invalidate, resolve, and raise on
\* not-found.
update_coe_cluster(cache, upstream, name_or_id, fails) ==
    LET cluster == get_coe_cluster(invalidate(cache), upstream, name_or_id, fails)
    IN  IF cluster.raised # NoError
        THEN [pc |-> "done", cluster |-> None, ret |-> None,
              raised |-> cluster.raised, cache |-> cluster.cache,
              calls |-> cluster.calls, listed |-> None]
        ELSE [pc |-> IF cluster.ret = None THEN "done" ELSE "resolved",
              cluster |-> cluster.ret, ret |-> None,
              raised |-> IF cluster.ret # None THEN NoError
                         ELSE [type |-> "OpenStackCloudException",
                               message |-> <<"COE cluster ", name_or_id, " not found.">>],
              cache |-> cluster.cache,
              calls |-> cluster.calls, listed |-> cluster.listed]

\* update_coe_cluster, lines 146-151: update upstream, return what it gives.
update_coe_cluster_finish(cache, upstream, cluster, node_count, fails) ==
    LET updated == proxy_update_cluster(upstream, cluster, node_count, fails)
    IN  [ret |-> updated.entity,
         raised |-> IF updated.ok THEN NoError ELSE UpstreamError,
         cache |-> cache, upstream |-> updated.upstream,
         calls |-> <<"update_cluster">>]

---------------------------------------------------------------------------
(* Cluster template operations *)

\* A failure of the list request (docstring lines 201-202) is not caught at
\* any level either.
list_cluster_templates(cache, upstream, fails) ==
    cache_on_arguments(cache, proxy_list(upstream, fails), "cluster_templates")

search_cluster_templates(cache, upstream, name_or_id, fails) ==
    LET cluster_templates == list_cluster_templates(cache, upstream, fails)
    IN  IF cluster_templates.raised # NoError
        THEN [ret |-> None, raised |-> cluster_templates.raised,
              cache |-> cluster_templates.cache,
              calls |-> cluster_templates.calls, listed |-> None]
        ELSE [ret |-> filter_list(cluster_templates.ret, name_or_id),
              raised |-> NoError,
              cache |-> cluster_templates.cache,
              calls |-> cluster_templates.calls,
              listed |-> cluster_templates.ret]

get_cluster_template(cache, upstream, name_or_id, fails) ==
    LET found == search_cluster_templates(cache, upstream, name_or_id, fails)
    IN  IF found.raised # NoError THEN found
        ELSE [found EXCEPT !.ret = get_entity(found.ret)]

create_cluster_template(cache, upstream, name, size, fails) ==
    LET made == proxy_create(upstream, Template(IdOf(name), size), fails)
    IN  IF ~made.ok
        THEN [ret |-> None, raised |-> UpstreamError, cache |-> cache,
              upstream |-> upstream, calls |-> <<"create_cluster_template">>,
              listed |-> None]
        ELSE [ret |-> Template(IdOf(name), size), raised |-> NoError,
              cache |-> cache,
              upstream |-> made.upstream, calls |-> <<"create_cluster_template">>,
              listed |-> None]

\* delete_cluster_template, lines 287-294: resolve, and return False on
\* not-found.
delete_cluster_template(cache, upstream, name_or_id, fails) ==
    LET cluster_template == get_cluster_template(cache, upstream, name_or_id, fails)
    IN  IF cluster_template.raised # NoError
        THEN [pc |-> "done", cluster_template |-> None, ret |-> None,
              raised |-> cluster_template.raised, cache |-> cluster_template.cache,
              calls |-> cluster_template.calls, listed |-> None]
        ELSE [pc |-> IF cluster_template.ret = None THEN "done" ELSE "resolved",
              cluster_template |-> cluster_template.ret, ret |-> FALSE, raised |-> NoError,
              cache |-> cluster_template.cache,
              calls |-> cluster_template.calls, listed |-> cluster_template.listed]

\* delete_cluster_template, lines 296-298: delete upstream, return True; a
\* failure of the delete request propagates from line 296.
delete_cluster_template_finish(cache, upstream, cluster_template, fails) ==
    LET deleted == proxy_delete(upstream, cluster_template, fails)
    IN  IF ~deleted.ok
        THEN [ret |-> None, raised |-> UpstreamError,
              cache |-> cache, upstream |-> deleted.upstream,
              calls |-> <<"delete_cluster_template">>]
        ELSE [ret |-> TRUE, raised |-> NoError,
              cache |-> cache, upstream |-> deleted.upstream,
              calls |-> <<"delete_cluster_template">>]

\* The SDK proxy's update_cluster_template, as proxy_update_cluster.
proxy_update_cluster_template(upstream, cluster_template, size, fails) ==
    IF ~fails /\ \E e \in upstream : e.id = cluster_template.id
    THEN [ok |-> TRUE,
          entity |-> Template(cluster_template.id, size),
          upstream |-> {IF e.id = cluster_template.id THEN Template(e.id, size) ELSE e
                        : e \in upstream}]
    ELSE [ok |-> FALSE, entity |-> None, upstream |-> upstream]

\* update_cluster_template as it would be if it signalled not-found the way
\* get and delete do, by its return value.
update_cluster_template_silent(cache, upstream, name_or_id, fails) ==
    LET cluster_template == get_cluster_template(cache, upstream, name_or_id, fails)
    IN  IF cluster_template.raised # NoError
        THEN [pc |-> "done", cluster_template |-> None, ret |-> None,
              raised |-> cluster_template.raised, cache |-> cluster_template.cache,
              calls |-> cluster_template.calls, listed |-> None]
        ELSE [pc |-> IF cluster_template.ret = None THEN "done" ELSE "resolved",
              cluster_template |-> cluster_template.ret, ret |-> None, raised |-> NoError,
              cache |-> cluster_template.cache,
              calls |-> cluster_template.calls, listed |-> cluster_template.listed]

\* update_cluster_template, lines 309-312: resolve, and raise on not-found.
update_cluster_template(cache, upstream, name_or_id, fails) ==
    LET cluster_template == get_cluster_template(cache, upstream, name_or_id, fails)
    IN  IF cluster_template.raised # NoError
        THEN [pc |-> "done", cluster_template |-> None, ret |-> None,
              raised |-> cluster_template.raised, cache |-> cluster_template.cache,
              calls |-> cluster_template.calls, listed |-> None]
        ELSE [pc |-> IF cluster_template.ret = None THEN "done" ELSE "resolved",
              cluster_template |-> cluster_template.ret, ret |-> None,
              raised |-> IF cluster_template.ret # None THEN NoError
                         ELSE [type |-> "OpenStackCloudException",
                               message |-> <<"Cluster template ", name_or_id, " not found.">>],
              cache |-> cluster_template.cache,
              calls |-> cluster_template.calls, listed |-> cluster_template.listed]

\* update_cluster_template, lines 314-320: update upstream, return what it
\* gives.
update_cluster_template_finish(cache, upstream, cluster_template, size, fails) ==
    LET updated == proxy_update_cluster_template(upstream, cluster_template, size, fails)
    IN  [ret |-> updated.entity,
         raised |-> IF updated.ok THEN NoError ELSE UpstreamError,
         cache |-> cache, upstream |-> updated.upstream,
         calls |-> <<"update_cluster_template">>]

---------------------------------------------------------------------------
(* The normalizers *)

(* A record (dict, Munch) is a function from its keys to values; the value   *)
(* upstream sends under key k is written k, and "None" is Python's None.     *)
(* `objects` holds the two dict objects of a call, the caller's under "arg"  *)
(* and the one .copy() makes under "copy"; a local variable holds a          *)
(* reference.  ret['properties'] is kept beside ret, as `properties`.        *)

EmptyDict == [k \in {} |-> ""]
Drop(d, key) == [k \in DOMAIN d \ {key} |-> d[k]]
Put(d, key, value) == [k \in DOMAIN d \cup {key} |-> IF k = key THEN value ELSE d[k]]
Range(seq) == {seq[i] : i \in DOMAIN seq}

\* dict.copy() as it would be if the normalizer worked on its argument.
dict_alias(objects, ref) == [objects |-> objects, ref |-> ref]

\* dict.copy(): a new object with the same items.
dict_copy(objects, ref) ==
    [objects |-> [objects EXCEPT !["copy"] = objects[ref]], ref |-> "copy"]

\* The frame of a normalizer as it starts: its local record is a copy of the
\* argument, nothing raised, ret not yet built.
Enter(record) ==
    LET c == dict_copy([arg |-> record, copy |-> EmptyDict], "arg")
    IN  [objects |-> c.objects, ref |-> c.ref, ret |-> EmptyDict, raised |-> ""]

\* record.pop(key, None), the value dropped.
pop_default(f, key) ==
    IF f.raised # "" THEN f
    ELSE [f EXCEPT !.objects[f.ref] = Drop(@, key)]

\* ret[dest] = record.pop(key): KeyError(key) when the key is missing.
pop_into(f, key, dest) ==
    IF f.raised # "" THEN f
    ELSE IF key \notin DOMAIN f.objects[f.ref] THEN [f EXCEPT !.raised = key]
    ELSE [f EXCEPT !.ret = Put(@, dest, f.objects[f.ref][key]),
                   !.objects[f.ref] = Drop(@, key)]

\* if key in record: ret[key] = record.pop(key)
pop_if_present(f, key) ==
    IF f.raised # "" \/ key \notin DOMAIN f.objects[f.ref] THEN f
    ELSE pop_into(f, key, key)

\* ret[key] = value
set_item(f, key, value) ==
    IF f.raised # "" THEN f ELSE [f EXCEPT !.ret = Put(@, key, value)]

RECURSIVE pop_each(_, _, _)
\* for key in keys: ret[key] = record.pop(key)
pop_each(f, keys, i) ==
    IF i > Len(keys) THEN f
    ELSE pop_each(pop_into(f, keys[i], keys[i]), keys, i + 1)

RECURSIVE pop_each_present(_, _, _)
\* for key in keys: if key in record: ret[key] = record.pop(key)
pop_each_present(f, keys, i) ==
    IF i > Len(keys) THEN f
    ELSE pop_each_present(pop_if_present(f, keys[i]), keys, i + 1)

\* What the caller has once the normalizer is over: the record returned (ret,
\* and its 'properties' entry, the local record itself) or the KeyError, and
\* the caller's own record as it is now.
Leave(f) ==
    [raised |-> f.raised,
     returned |-> f.raised = "",
     ret |-> IF f.raised = "" THEN f.ret ELSE EmptyDict,
     properties |-> IF f.raised = "" THEN f.objects[f.ref] ELSE EmptyDict,
     caller |-> f.objects["arg"]]

ClusterKeys ==
    <<"status", "cluster_template_id", "stack_id", "keypair", "master_count",
      "create_timeout", "node_count", "name">>

normalize_coe_cluster(coe_cluster, strict_mode) ==
    LET f0 == Enter(coe_cluster)
        f1 == pop_default(f0, "links")
        f2 == pop_into(f1, "uuid", "id")
        f3 == set_item(f2, "location", "current_location")
        f4 == IF ~strict_mode /\ f3.raised = ""
              THEN set_item(f3, "uuid", f3.ret["id"]) ELSE f3
        f5 == pop_each_present(f4, ClusterKeys, 1)
    IN  Leave(f5)

TemplateOptionalKeys ==
    <<"fixed_network", "fixed_subnet", "http_proxy", "https_proxy", "labels",
      "master_flavor_id", "no_proxy">>

\* The pass-through keys as they would be with 'coe' forgotten.
TemplateKeys_without_coe ==
    <<"apiserver_port", "cluster_distro", "created_at", "dns_nameserver",
      "docker_volume_size", "external_network_id", "flavor_id", "image_id",
      "insecure_registry", "keypair_id", "name", "network_driver", "server_type",
      "updated_at", "volume_driver">>

TemplateKeys ==
    <<"apiserver_port", "cluster_distro", "coe", "created_at", "dns_nameserver",
      "docker_volume_size", "external_network_id", "flavor_id", "image_id",
      "insecure_registry", "keypair_id", "name", "network_driver", "server_type",
      "updated_at", "volume_driver">>

normalize_cluster_template(cluster_template, strict_mode) ==
    LET f0 == Enter(cluster_template)
        f1 == pop_default(pop_default(pop_default(f0, "links"), "human_id"),
                          "model_name")
        f2 == pop_into(f1, "uuid", "id")
        f3 == set_item(f2, "location", "current_location")
        f4 == pop_into(f3, "public", "is_public")
        f5 == pop_into(f4, "registry_enabled", "is_registry_enabled")
        f6 == pop_into(f5, "tls_disabled", "is_tls_disabled")
        fip_enabled == IF f6.raised = "" /\ "floating_ip_enabled" \in DOMAIN f6.objects[f6.ref]
                       THEN f6.objects[f6.ref]["floating_ip_enabled"] ELSE "None"
        f7 == pop_default(f6, "floating_ip_enabled")
        f8 == IF strict_mode \/ f7.raised # "" THEN f7
              ELSE LET g1 == set_item(f7, "uuid", f7.ret["id"])
                       g2 == IF fip_enabled # "None"
                             THEN set_item(g1, "floating_ip_enabled", fip_enabled)
                             ELSE g1
                       g3 == set_item(g2, "public", g2.ret["is_public"])
                       g4 == set_item(g3, "registry_enabled", g3.ret["is_registry_enabled"])
                   IN  set_item(g4, "tls_disabled", g4.ret["is_tls_disabled"])
        f9 == pop_each_present(f8, TemplateOptionalKeys, 1)
        f10 == pop_each(f9, TemplateKeys, 1)
    IN  Leave(f10)

ServiceKeys ==
    <<"binary", "created_at", "disabled_reason", "host", "id", "report_count",
      "state", "updated_at">>

normalize_magnum_service(magnum_service) ==
    LET f0 == Enter(magnum_service)
        f1 == pop_default(pop_default(pop_default(f0, "links"), "human_id"),
                          "model_name")
        f2 == set_item(f1, "location", "current_location")
        f3 == pop_each(f2, ServiceKeys, 1)
    IN  Leave(f3)

(* Upstream records: the keys of the schema but for at most MaxMissing of    *)
(* them, and any of the keys upstream sends besides.                         *)
Noise == {"links", "human_id", "model_name"}
Unknown == {"extra_field"}

Dict(keys) == [k \in keys |-> k]

RECURSIVE UpTo(_, _)
\* The subsets of `schema` of at most n keys.
UpTo(schema, n) ==
    IF n = 0 THEN {{}}
    ELSE LET smaller == UpTo(schema, n - 1)
         IN  smaller \cup {M \cup {k} : M \in smaller, k \in schema}

Lacking(schema) == UpTo(schema, MaxMissing)

ClusterRecords ==
    {Dict((({"uuid"} \cup Range(ClusterKeys)) \ M) \cup N) :
        M \in Lacking({"uuid"} \cup Range(ClusterKeys)),
        N \in SUBSET (Noise \cup Unknown)}

TemplateSchema ==
    {"uuid", "public", "registry_enabled", "tls_disabled"}
        \cup Range(TemplateOptionalKeys) \cup Range(TemplateKeys)

\* floating_ip_enabled may be absent, null or set.
TemplateRecords ==
    {IF fip = "absent" THEN d ELSE Put(d, "floating_ip_enabled", fip) :
        d \in {Dict((TemplateSchema \ M) \cup N) :
                   M \in Lacking(TemplateSchema),
                   N \in SUBSET (Noise \cup Unknown)},
        fip \in {"absent", "None", "floating_ip_enabled"}}

ServiceRecords ==
    {Dict((Range(ServiceKeys) \ M) \cup N) :
        M \in Lacking(Range(ServiceKeys)),
        N \in SUBSET (Noise \cup Unknown)}

\* A normalizer call about to be made: the function, self.strict_mode and the
\* caller's record.
Pending(fn, strict_mode, input) ==
    [fn |-> fn, strict_mode |-> strict_mode, input |-> input, done |-> FALSE,
     raised |-> "", returned |-> FALSE, ret |-> EmptyDict, properties |-> EmptyDict,
     caller |-> input]

NoNorm == Pending("none", FALSE, EmptyDict)

\* The call made, with its outcome.
Normalized(call, out) ==
    [fn |-> call.fn, strict_mode |-> call.strict_mode, input |-> call.input,
     done |-> TRUE] @@ out

---------------------------------------------------------------------------
(* The state machine of the client calls *)

\* How `last` holds what a call returned, whatever its Python type: a list, an
\* entity, None (also when the call raised), or a boolean.
AsList(S) == [tag |-> "list", items |-> S, flag |-> FALSE]
AsEntity(e) ==
    IF e = None THEN [tag |-> "None", items |-> {}, flag |-> FALSE]
    ELSE [tag |-> "entity", items |-> {e}, flag |-> FALSE]
AsBool(b) == [tag |-> "bool", items |-> {}, flag |-> b]

NoCall == [op |-> "none", ok |-> TRUE, cached |-> FALSE]
Idle ==
    [op |-> "none", pc |-> "done", arg |-> 0,
     entity |-> AsEntity(None), ret |-> AsEntity(None), raised |-> NoError,
     calls |-> <<>>, listed |-> AsEntity(None), pre_upstream |-> {},
     pre_cache |-> EmptyCache, prev |-> NoCall]

\* What `last` records of a call, in progress or over: pc is "resolved" while
\* a delete_* or update_* waits to send its write request and "done" once the
\* call is over; `entity` is the local variable holding what get_*() gave to
\* such a call; `listed` is the list the call got from list_*() (None when it
\* asked for none or the list request failed).  pre_upstream is the upstream
\* collection as the step that ended the call began (not kept when that step
\* is the second half of a call and its write request was answered), and
\* pre_cache the memo as the call began (whether it held a list, and the
\* entries of that list matching the call's argument), kept for a call that
\* is over in one step.
\* For a list_*() call made right after a create_*(), `prev` is that create:
\* its name, whether it returned, and whether the memo held a list as it
\* began.  The attribute values an update_* was given (**kwargs) are not
\* looked at before its update request and are drawn there.
Called(op, arg, ret, r, listed, pre_upstream, pre_cache) ==
    [op |-> op, pc |-> "done", arg |-> arg,
     entity |-> AsEntity(None), ret |-> ret, raised |-> r.raised, calls |-> r.calls,
     listed |-> listed, pre_upstream |-> pre_upstream,
     pre_cache |-> [valid |-> pre_cache.valid,
                    value |-> filter_list(pre_cache.value, arg)],
     prev |-> IF op \in {"list_coe_clusters", "list_cluster_templates"}
                 /\ last.op \in {"create_coe_cluster", "create_cluster_template"}
              THEN [op |-> last.op, ok |-> last.raised = NoError,
                    cached |-> last.pre_cache.valid]
              ELSE NoCall]

\* A delete_* or update_* that has resolved its entity and not yet sent its
\* write request.
Resolving(call, entity) ==
    [call EXCEPT !.pc = "resolved", !.entity = AsEntity(entity),
                 !.ret = AsEntity(None),
                 !.pre_upstream = {}, !.pre_cache = EmptyCache]

\* The call in progress, over: what its second half returned or raised, the
\* upstream call it made, and, when that request failed, the upstream
\* collection as it was made.
Finished(call, ret, r, pre_upstream) ==
    [call EXCEPT !.pc = "done", !.ret = ret, !.raised = r.raised,
                 !.calls = @ \o r.calls,
                 !.pre_upstream = IF r.raised = NoError THEN {} ELSE pre_upstream]

\* The entity the call in progress resolved.
Entity(call) == CHOOSE e \in call.entity.items : TRUE

\* What `last` becomes when another party acts: a call in progress stays in
\* progress, a call that is over is no longer the last thing that happened.
Overtaken(call) == IF call.pc = "done" THEN Idle ELSE call

\* What `last` holds of the list a read or a resolving half got from
\* list_*(): None when the list request failed.
AsListed(r, listed) ==
    IF r.raised = UpstreamError THEN AsEntity(None) ELSE AsList(listed)

\* What `last` holds of the value a read returned: None when it raised.
AsReturned(r, ret) ==
    IF r.raised = UpstreamError THEN AsEntity(None) ELSE ret

\* The outcomes of the list request a read may make: none to fail when the
\* memo holds a list and no request is made.
ListFails(cache) == IF cache.valid THEN {FALSE} ELSE BOOLEAN

NoWindow == [fetches |-> 0, fetched |-> 0, lists |-> {}]

Capped(n) == IF n > MaxFetch THEN MaxFetch ELSE n

\* A cluster read adds its upstream list requests (fetches), those of them
\* that were answered (fetched), and the list it saw if it saw one.
Read(w, r, listed) ==
    [fetches |-> Capped(w.fetches + Count(r.calls, "clusters")),
     fetched |-> IF r.raised = UpstreamError THEN w.fetched
                 ELSE Capped(w.fetched + Count(r.calls, "clusters")),
     lists |-> IF r.raised = UpstreamError THEN w.lists ELSE w.lists \cup {listed}]

ClusterFrame == UNCHANGED <<templates, template_cache, kind, norm>>
TemplateFrame == UNCHANGED <<clusters, cluster_cache, window, kind, norm>>

do_list_coe_clusters ==
    /\ kind = "coe_cluster"
    /\ last.pc = "done"
    /\ \E fails \in ListFails(cluster_cache) :
        LET r == list_coe_clusters(cluster_cache, clusters, fails)
        IN  /\ cluster_cache' = r.cache
            /\ last' = Called("list_coe_clusters", 0, AsListed(r, r.ret),
                              r, AsListed(r, r.ret), clusters, cluster_cache)
            /\ window' = Read(window, r, r.ret)
    /\ UNCHANGED clusters
    /\ ClusterFrame

do_search_coe_clusters ==
    /\ kind = "coe_cluster"
    /\ last.pc = "done"
    /\ \E name_or_id \in NameOrIds, fails \in ListFails(cluster_cache) :
        LET r == search_coe_clusters(cluster_cache, clusters, name_or_id, fails)
        IN  /\ cluster_cache' = r.cache
            /\ last' = Called("search_coe_clusters", name_or_id, AsReturned(r, AsList(r.ret)),
                              r, AsListed(r, r.listed), clusters, cluster_cache)
            /\ window' = Read(window, r, r.listed)
    /\ UNCHANGED clusters
    /\ ClusterFrame

do_get_coe_cluster ==
    /\ kind = "coe_cluster"
    /\ last.pc = "done"
    /\ \E name_or_id \in NameOrIds, fails \in ListFails(cluster_cache) :
        LET r == get_coe_cluster(cluster_cache, clusters, name_or_id, fails)
        IN  /\ cluster_cache' = r.cache
            /\ last' = Called("get_coe_cluster", name_or_id, AsReturned(r, AsEntity(r.ret)),
                              r, AsListed(r, r.listed), clusters, cluster_cache)
            /\ window' = Read(window, r, r.listed)
    /\ UNCHANGED clusters
    /\ ClusterFrame

do_create_coe_cluster ==
    /\ kind = "coe_cluster"
    /\ last.pc = "done"
    /\ \E name \in Names, node_count \in Sizes, fails \in BOOLEAN :
        LET r == create_coe_cluster(cluster_cache, clusters, name, node_count, fails)
        IN  /\ cluster_cache' = r.cache
            /\ clusters' = r.upstream
            /\ last' = Called("create_coe_cluster", name, AsEntity(r.ret),
                              r, AsEntity(None), clusters, cluster_cache)
    /\ window' = NoWindow
    /\ ClusterFrame

do_delete_coe_cluster ==
    /\ kind = "coe_cluster"
    /\ last.pc = "done"
    /\ \E name_or_id \in NameOrIds, fails \in ListFails(cluster_cache) :
        LET r == delete_coe_cluster(cluster_cache, clusters, name_or_id, fails)
            call == Called("delete_coe_cluster", name_or_id, AsReturned(r, AsBool(r.ret)),
                           r, AsListed(r, r.listed), clusters, cluster_cache)
        IN  /\ cluster_cache' = r.cache
            /\ last' = IF r.pc = "done" THEN call ELSE Resolving(call, r.cluster)
    /\ window' = NoWindow
    /\ UNCHANGED clusters
    /\ ClusterFrame

do_delete_coe_cluster_finish ==
    /\ kind = "coe_cluster"
    /\ last.op = "delete_coe_cluster"
    /\ last.pc = "resolved"
    /\ \E fails \in BOOLEAN :
        LET r == delete_coe_cluster_finish(cluster_cache, clusters, Entity(last), fails)
        IN  /\ cluster_cache' = r.cache
            /\ clusters' = r.upstream
            /\ last' = Finished(last, IF r.raised = NoError THEN AsBool(r.ret)
                                      ELSE AsEntity(r.ret), r, clusters)
    /\ window' = NoWindow
    /\ ClusterFrame

do_update_coe_cluster ==
    /\ kind = "coe_cluster"
    /\ last.pc = "done"
    /\ \E name_or_id \in NameOrIds, fails \in BOOLEAN :
        LET r == update_coe_cluster(cluster_cache, clusters, name_or_id, fails)
            call == Called("update_coe_cluster", name_or_id, AsReturned(r, AsEntity(r.ret)),
                           r, AsListed(r, r.listed), clusters, cluster_cache)
        IN  /\ cluster_cache' = r.cache
            /\ last' = IF r.pc = "done" THEN call
                       ELSE Resolving(call, r.cluster)
    /\ window' = NoWindow
    /\ UNCHANGED clusters
    /\ ClusterFrame

do_update_coe_cluster_finish ==
    /\ kind = "coe_cluster"
    /\ last.op = "update_coe_cluster"
    /\ last.pc = "resolved"
    /\ \E node_count \in Sizes, fails \in BOOLEAN :
        LET r == update_coe_cluster_finish(cluster_cache, clusters, Entity(last),
                                           node_count, fails)
        IN  /\ cluster_cache' = r.cache
            /\ clusters' = r.upstream
            /\ last' = Finished(last, AsEntity(r.ret), r, clusters)
    /\ window' = NoWindow
    /\ ClusterFrame

\* Another party adds a cluster upstream; the client is not told.
other_party_creates_cluster ==
    /\ kind = "coe_cluster"
    /\ \E i \in Ids, n \in Sizes :
        /\ \A e \in clusters : e.id # i
        /\ clusters' = clusters \cup {Cluster(i, n)}
    /\ last' = Overtaken(last)
    /\ UNCHANGED <<cluster_cache, window>>
    /\ ClusterFrame

\* Another party removes a cluster upstream; the client is not told.
other_party_deletes_cluster ==
    /\ kind = "coe_cluster"
    /\ \E e \in clusters : clusters' = clusters \ {e}
    /\ last' = Overtaken(last)
    /\ UNCHANGED <<cluster_cache, window>>
    /\ ClusterFrame

do_list_cluster_templates ==
    /\ kind = "cluster_template"
    /\ last.pc = "done"
    /\ \E fails \in ListFails(template_cache) :
        LET r == list_cluster_templates(template_cache, templates, fails)
        IN  /\ template_cache' = r.cache
            /\ last' = Called("list_cluster_templates", 0, AsListed(r, r.ret),
                              r, AsListed(r, r.ret), templates, template_cache)
    /\ UNCHANGED templates
    /\ TemplateFrame

do_search_cluster_templates ==
    /\ kind = "cluster_template"
    /\ last.pc = "done"
    /\ \E name_or_id \in NameOrIds, fails \in ListFails(template_cache) :
        LET r == search_cluster_templates(template_cache, templates, name_or_id, fails)
        IN  /\ template_cache' = r.cache
            /\ last' = Called("search_cluster_templates", name_or_id, AsReturned(r, AsList(r.ret)),
                              r, AsListed(r, r.listed), templates, template_cache)
    /\ UNCHANGED templates
    /\ TemplateFrame

do_get_cluster_template ==
    /\ kind = "cluster_template"
    /\ last.pc = "done"
    /\ \E name_or_id \in NameOrIds, fails \in ListFails(template_cache) :
        LET r == get_cluster_template(template_cache, templates, name_or_id, fails)
        IN  /\ template_cache' = r.cache
            /\ last' = Called("get_cluster_template", name_or_id, AsReturned(r, AsEntity(r.ret)),
                              r, AsListed(r, r.listed), templates, template_cache)
    /\ UNCHANGED templates
    /\ TemplateFrame

do_create_cluster_template ==
    /\ kind = "cluster_template"
    /\ last.pc = "done"
    /\ \E name \in Names, size \in Sizes, fails \in BOOLEAN :
        LET r == create_cluster_template(template_cache, templates, name, size, fails)
        IN  /\ template_cache' = r.cache
            /\ templates' = r.upstream
            /\ last' = Called("create_cluster_template", name, AsEntity(r.ret),
                              r, AsEntity(None),
                              templates, template_cache)
    /\ TemplateFrame

do_delete_cluster_template ==
    /\ kind = "cluster_template"
    /\ last.pc = "done"
    /\ \E name_or_id \in NameOrIds, fails \in ListFails(template_cache) :
        LET r == delete_cluster_template(template_cache, templates, name_or_id, fails)
            call == Called("delete_cluster_template", name_or_id, AsReturned(r, AsBool(r.ret)),
                           r, AsListed(r, r.listed), templates, template_cache)
        IN  /\ template_cache' = r.cache
            /\ last' = IF r.pc = "done" THEN call
                       ELSE Resolving(call, r.cluster_template)
    /\ UNCHANGED templates
    /\ TemplateFrame

do_delete_cluster_template_finish ==
    /\ kind = "cluster_template"
    /\ last.op = "delete_cluster_template"
    /\ last.pc = "resolved"
    /\ \E fails \in BOOLEAN :
        LET r == delete_cluster_template_finish(template_cache, templates,
                                                Entity(last), fails)
        IN  /\ template_cache' = r.cache
            /\ templates' = r.upstream
            /\ last' = Finished(last, IF r.raised = NoError THEN AsBool(r.ret)
                                      ELSE AsEntity(r.ret), r, templates)
    /\ TemplateFrame

do_update_cluster_template ==
    /\ kind = "cluster_template"
    /\ last.pc = "done"
    /\ \E name_or_id \in NameOrIds, fails \in ListFails(template_cache) :
        LET r == update_cluster_template(template_cache, templates, name_or_id, fails)
            call == Called("update_cluster_template", name_or_id, AsReturned(r, AsEntity(r.ret)),
                           r, AsListed(r, r.listed), templates, template_cache)
        IN  /\ template_cache' = r.cache
            /\ last' = IF r.pc = "done" THEN call
                       ELSE Resolving(call, r.cluster_template)
    /\ UNCHANGED templates
    /\ TemplateFrame

do_update_cluster_template_finish ==
    /\ kind = "cluster_template"
    /\ last.op = "update_cluster_template"
    /\ last.pc = "resolved"
    /\ \E size \in Sizes, fails \in BOOLEAN :
        LET r == update_cluster_template_finish(template_cache, templates,
                                                Entity(last), size, fails)
        IN  /\ template_cache' = r.cache
            /\ templates' = r.upstream
            /\ last' = Finished(last, AsEntity(r.ret), r, templates)
    /\ TemplateFrame

\* Another party adds a template upstream; the client is not told.
other_party_creates_template ==
    /\ kind = "cluster_template"
    /\ \E i \in Ids, n \in Sizes :
        /\ \A e \in templates : e.id # i
        /\ templates' = templates \cup {Template(i, n)}
    /\ last' = Overtaken(last)
    /\ UNCHANGED template_cache
    /\ TemplateFrame

\* Another party removes a template upstream; the client is not told.
other_party_deletes_template ==
    /\ kind = "cluster_template"
    /\ \E e \in templates : templates' = templates \ {e}
    /\ last' = Overtaken(last)
    /\ UNCHANGED template_cache
    /\ TemplateFrame

\* A freshly constructed client (both memos empty) in front of a service that
\* holds any clusters or templates.
Init ==
    /\ kind \in {"coe_cluster", "cluster_template"}
    /\ clusters \in (IF kind = "coe_cluster" THEN ClusterLists ELSE {{}})
    /\ templates \in (IF kind = "cluster_template" THEN TemplateLists ELSE {{}})
    /\ cluster_cache = EmptyCache
    /\ template_cache = EmptyCache
    /\ last = Idle
    /\ window = NoWindow
    /\ norm = NoNorm

ClusterCalls ==
    \/ do_list_coe_clusters
    \/ do_search_coe_clusters
    \/ do_get_coe_cluster
    \/ do_create_coe_cluster
    \/ do_delete_coe_cluster
    \/ do_delete_coe_cluster_finish
    \/ do_update_coe_cluster
    \/ do_update_coe_cluster_finish

TemplateCalls ==
    \/ do_list_cluster_templates
    \/ do_search_cluster_templates
    \/ do_get_cluster_template
    \/ do_create_cluster_template
    \/ do_delete_cluster_template
    \/ do_delete_cluster_template_finish
    \/ do_update_cluster_template
    \/ do_update_cluster_template_finish

Next ==
    \/ ClusterCalls
    \/ TemplateCalls
    \/ other_party_creates_cluster
    \/ other_party_deletes_cluster
    \/ other_party_creates_template
    \/ other_party_deletes_template

Spec == Init /\ [][Next]_vars

---------------------------------------------------------------------------
(* The state machine of the normalizer calls *)

ClientFrame ==
    UNCHANGED <<clusters, cluster_cache, templates, template_cache, last, window, kind>>

do_normalize_coe_cluster ==
    /\ norm.fn = "_normalize_coe_cluster"
    /\ ~norm.done
    /\ norm' = Normalized(norm, normalize_coe_cluster(norm.input, norm.strict_mode))
    /\ ClientFrame

do_normalize_cluster_template ==
    /\ norm.fn = "_normalize_cluster_template"
    /\ ~norm.done
    /\ norm' = Normalized(norm, normalize_cluster_template(norm.input, norm.strict_mode))
    /\ ClientFrame

do_normalize_magnum_service ==
    /\ norm.fn = "_normalize_magnum_service"
    /\ ~norm.done
    /\ norm' = Normalized(norm, normalize_magnum_service(norm.input))
    /\ ClientFrame

\* A client about to normalize one upstream record, in either mode.
InitNorm ==
    /\ kind = "normalize"
    /\ clusters = {}
    /\ templates = {}
    /\ cluster_cache = EmptyCache
    /\ template_cache = EmptyCache
    /\ last = Idle
    /\ window = NoWindow
    /\ \E strict_mode \in BOOLEAN :
        \/ \E r \in ClusterRecords :
              norm = Pending("_normalize_coe_cluster", strict_mode, r)
        \/ \E r \in TemplateRecords :
              norm = Pending("_normalize_cluster_template", strict_mode, r)
        \/ \E r \in ServiceRecords :
              norm = Pending("_normalize_magnum_service", strict_mode, r)

NextNorm ==
    \/ do_normalize_coe_cluster
    \/ do_normalize_cluster_template
    \/ do_normalize_magnum_service

SpecNorm == InitNorm /\ [][NextNorm]_vars

\* A single writer: this client alone changes the upstream clusters.
InitSolo == Init /\ kind = "coe_cluster"
SpecSolo == InitSolo /\ [][ClusterCalls]_vars

---------------------------------------------------------------------------
(* Properties *)

NotFound(raised) ==
    /\ raised.type = "OpenStackCloudException"
    /\ raised.message[3] = " not found."

\* The entries of the list a call resolved its name_or_id against that match.
Resolved == filter_list(last.listed.items, last.arg)

\* C1 as claimed: a list_coe_clusters made right after a create_coe_cluster
\* that returned gives the upstream list as it is after the create, one
\* upstream list call having fetched it, and the created cluster is in it;
\* this whether the memo was empty or held a list when the create began.
C1_CreateThenListIsFresh ==
    [][(/\ last.op = "create_coe_cluster"
        /\ last.raised = NoError
        /\ last'.op = "list_coe_clusters")
       => (/\ last'.ret = AsList(clusters')
           /\ last.ret.items \subseteq last'.ret.items
           /\ last.ret.tag = "entity"
           /\ last'.calls = <<"clusters">>)]_vars

\* C1, amended: a list_coe_clusters made right after a create_coe_cluster that
\* returned makes exactly one upstream list request, whether the memo was
\* empty or held a list when the create began; if the request is answered the
\* call returns the upstream list as it is after the create, the created
\* cluster in it; if the request fails the call raises the upstream failure,
\* returns no list, and the memo stays empty.
C1_CreateThenListIsFreshOrRaises ==
    [][(/\ last.op = "create_coe_cluster"
        /\ last.raised = NoError
        /\ last'.op = "list_coe_clusters")
       => (/\ last.ret.tag = "entity"
           /\ last'.calls = <<"clusters">>
           /\ \/ /\ last'.raised = NoError
                 /\ last'.ret = AsList(clusters')
                 /\ last.ret.items \subseteq last'.ret.items
              \/ /\ last'.raised = UpstreamError
                 /\ last'.ret = AsEntity(None)
                 /\ cluster_cache' = EmptyCache)]_vars

\* The list after a create that began with a list memoised.
C1_Witness ==
    /\ last.op = "list_coe_clusters"
    /\ last.prev.op = "create_coe_cluster"
    /\ last.prev.ok
    /\ last.prev.cached
    /\ last.ret = AsList(clusters)
    /\ clusters # {}

\* C2 as claimed: once delete_coe_cluster is over, if name_or_id matched
\* nothing in the list the call resolved against, it returned False, raised
\* nothing, made no upstream delete call and upstream is as it was when the
\* call began; if it matched a cluster, it made exactly one upstream delete
\* call, the memo is empty and it returned True.
C2_DeleteNotFoundOrDeleted ==
    (last.op = "delete_coe_cluster" /\ last.pc = "done") =>
        IF Resolved = {}
        THEN /\ last.ret = AsBool(FALSE)
             /\ last.raised = NoError
             /\ Count(last.calls, "delete_cluster") = 0
             /\ clusters = last.pre_upstream
        ELSE /\ last.ret = AsBool(TRUE)
             /\ last.raised = NoError
             /\ Count(last.calls, "delete_cluster") = 1
             /\ cluster_cache = EmptyCache

\* C2, amended: if the list request of the call failed, the call raised the
\* upstream failure, returned nothing, made no upstream delete call, and the
\* memo is empty and upstream as it was; otherwise as claimed when name_or_id
\* matched nothing; if it matched a cluster, the call made exactly one
\* upstream delete call, and either that request succeeded, the memo is empty
\* and the call returned True (whatever other parties did to upstream between
\* its list request and its delete request), or the request failed, the call
\* raised the upstream failure and returned nothing, the memo still holds the
\* list the call resolved against and upstream is as the request found it.
C2_DeleteNotFoundDeletedOrFailed ==
    (last.op = "delete_coe_cluster" /\ last.pc = "done") =>
        IF last.listed.tag # "list"
        THEN /\ last.raised = UpstreamError
             /\ last.ret = AsEntity(None)
             /\ last.calls = <<"clusters">>
             /\ cluster_cache = EmptyCache
             /\ clusters = last.pre_upstream
        ELSE IF Resolved = {}
        THEN /\ last.ret = AsBool(FALSE)
             /\ last.raised = NoError
             /\ Count(last.calls, "delete_cluster") = 0
             /\ clusters = last.pre_upstream
        ELSE /\ Count(last.calls, "delete_cluster") = 1
             /\ \/ /\ last.raised = NoError
                   /\ last.ret = AsBool(TRUE)
                   /\ cluster_cache = EmptyCache
                   /\ filter_list(clusters, Entity(last).id) = {}
                \/ /\ last.raised = UpstreamError
                   /\ last.ret = AsEntity(None)
                   /\ cluster_cache = [valid |-> TRUE, value |-> last.listed.items]
                   /\ clusters = last.pre_upstream

\* A delete that resolved a cluster and whose delete request failed: the
\* failure raised, the memo and the cluster still there.
C2_Witness ==
    /\ last.op = "delete_coe_cluster"
    /\ last.pc = "done"
    /\ Resolved # {}
    /\ last.raised = UpstreamError
    /\ Count(last.calls, "delete_cluster") = 1
    /\ cluster_cache.valid
    /\ filter_list(clusters, last.arg) # {}

\* C3 as claimed: update_coe_cluster and update_cluster_template, when
\* name_or_id resolves to nothing, raise the not-found error whose message
\* holds that name_or_id, make no upstream update call and leave upstream as
\* it was.
C3_UpdateNotFoundRaises ==
    IF Resolved # {} THEN TRUE
    ELSE IF last.op = "update_coe_cluster"
         THEN /\ last.raised.type = "OpenStackCloudException"
              /\ last.raised.message = <<"COE cluster ", last.arg, " not found.">>
              /\ Count(last.calls, "update_cluster") = 0
              /\ clusters = last.pre_upstream
    ELSE IF last.op = "update_cluster_template"
         THEN /\ last.raised.type = "OpenStackCloudException"
              /\ last.raised.message = <<"Cluster template ", last.arg, " not found.">>
              /\ Count(last.calls, "update_cluster_template") = 0
              /\ templates = last.pre_upstream
    ELSE TRUE

\* C3, amended: update_coe_cluster and update_cluster_template, when
\* name_or_id resolves to nothing, make no upstream update call and leave
\* upstream as it was; they raise the not-found error whose message holds
\* that name_or_id when the call got a list and name_or_id matches nothing in
\* it, and the upstream failure when the list request of the call failed.
C3_UpdateNotFoundOrListFailed ==
    IF Resolved # {} THEN TRUE
    ELSE IF last.op = "update_coe_cluster"
         THEN /\ IF last.listed.tag = "list"
                 THEN /\ last.raised.type = "OpenStackCloudException"
                      /\ last.raised.message = <<"COE cluster ", last.arg, " not found.">>
                 ELSE /\ last.raised = UpstreamError
                      /\ last.calls = <<"clusters">>
              /\ Count(last.calls, "update_cluster") = 0
              /\ clusters = last.pre_upstream
    ELSE IF last.op = "update_cluster_template"
         THEN /\ IF last.listed.tag = "list"
                 THEN /\ last.raised.type = "OpenStackCloudException"
                      /\ last.raised.message = <<"Cluster template ", last.arg, " not found.">>
                 ELSE /\ last.raised = UpstreamError
                      /\ last.calls = <<"cluster_templates">>
              /\ Count(last.calls, "update_cluster_template") = 0
              /\ templates = last.pre_upstream
    ELSE TRUE

\* An update_cluster_template of a name_or_id that matches nothing, upstream
\* holding templates.
C3_Witness ==
    /\ last.op = "update_cluster_template"
    /\ last.listed.tag = "list"
    /\ Resolved = {}
    /\ NotFound(last.raised)
    /\ templates # {}

\* C6 as claimed: the step in which update_coe_cluster resolves name_or_id
\* makes exactly one upstream list call, whatever the memo held, resolves against the
\* upstream list as it is in that step, and raises not-found exactly when
\* upstream then holds no cluster with that id or name.
C6_UpdateResolvesAgainstUpstream ==
    [][(last.pc = "done" /\ last'.op = "update_coe_cluster")
       => (/\ last'.calls = <<"clusters">>
           /\ last'.listed = AsList(clusters)
           /\ NotFound(last'.raised) <=> (filter_list(clusters, last'.arg) = {})
           /\ (last'.pc = "resolved") <=> (filter_list(clusters, last'.arg) # {}))]_vars

\* C6, amended: the step in which update_coe_cluster resolves name_or_id
\* makes exactly one upstream list request, whatever the memo held; if the
\* request is answered the call resolves against the upstream list as it is
\* in that step and raises not-found exactly when upstream then holds no
\* cluster with that id or name; if the request fails the call raises the
\* upstream failure, whether upstream holds the cluster or not, and the memo
\* stays empty.
C6_UpdateResolvesAgainstUpstreamOrRaises ==
    [][(last.pc = "done" /\ last'.op = "update_coe_cluster")
       => (/\ last'.calls = <<"clusters">>
           /\ \/ /\ last'.listed = AsList(clusters)
                 /\ last'.raised # UpstreamError
                 /\ NotFound(last'.raised) <=> (filter_list(clusters, last'.arg) = {})
                 /\ (last'.pc = "resolved") <=> (filter_list(clusters, last'.arg) # {})
              \/ /\ last'.listed = AsEntity(None)
                 /\ last'.raised = UpstreamError
                 /\ last'.pc = "done"
                 /\ cluster_cache' = EmptyCache)]_vars

\* An update of a cluster the memo still lists and another party has removed.
C6_Witness ==
    /\ last.op = "update_coe_cluster"
    /\ last.pre_cache.valid
    /\ filter_list(last.pre_cache.value, last.arg) # {}
    /\ filter_list(last.pre_upstream, last.arg) = {}
    /\ NotFound(last.raised)

\* C7: a list_cluster_templates that returns a list right after a
\* create_cluster_template that returned lists the created template, and one
\* that returns a list right after a delete_cluster_template that returned
\* True does not list the deleted one.
C7_TemplateWriteThenListIsFresh ==
    [][IF last'.op # "list_cluster_templates" \/ last'.raised # NoError THEN TRUE
       ELSE IF last.op = "create_cluster_template" /\ last.raised = NoError
            THEN last.ret.items \subseteq last'.ret.items
       ELSE IF last.op = "delete_cluster_template" /\ last.ret = AsBool(TRUE)
            THEN filter_list(last'.ret.items, last.arg) = {}
       ELSE TRUE]_vars

\* C8 as claimed: since the last create/delete/update_coe_cluster, the list,
\* search and get calls together made at most one upstream list call and all
\* saw one and the same list.
C8_ReadsShareOneFetch ==
    /\ window.fetches <= 1
    /\ Cardinality(window.lists) <= 1

\* C8, amended: since the last create/delete/update_coe_cluster, at most one
\* upstream list request of the list, search and get calls was answered, the
\* calls that returned all saw one and the same list, and every further
\* request they made is one that failed (a failed request memoises nothing,
\* so the next read asks again).
C8_ReadsShareOneAnsweredFetch ==
    /\ window.fetched <= 1
    /\ Cardinality(window.lists) <= 1
    /\ window.fetches > 1 => window.fetched < window.fetches

\* A get served from the memo, after a read that fetched the list, while
\* upstream has moved on.
C8_Witness ==
    /\ last.op = "get_coe_cluster"
    /\ last.calls = <<>>
    /\ window.fetches = 1
    /\ window.fetched = 1
    /\ window.lists = {last.listed.items}
    /\ last.listed.items # clusters

\* C10: with this client the only writer, whenever no call is in progress
\* the memo of list_coe_clusters is empty or equal to the upstream cluster
\* list.
C10_SingleWriterCacheCoherent ==
    (last.pc = "done" /\ cluster_cache.valid) => cluster_cache.value = clusters

Restrict(d, keys) == [k \in DOMAIN d \cap keys |-> d[k]]

\* The keys each schema consumes, as the data model lists them.
ConsumedKeys ==
    [_normalize_coe_cluster |->
        {"uuid", "status", "cluster_template_id", "stack_id", "keypair",
         "master_count", "create_timeout", "node_count", "name"},
     _normalize_cluster_template |->
        {"uuid", "public", "registry_enabled", "tls_disabled", "floating_ip_enabled",
         "fixed_network", "fixed_subnet", "http_proxy", "https_proxy", "labels",
         "master_flavor_id", "no_proxy",
         "apiserver_port", "cluster_distro", "coe", "created_at", "dns_nameserver",
         "docker_volume_size", "external_network_id", "flavor_id", "image_id",
         "insecure_registry", "keypair_id", "name", "network_driver", "server_type",
         "updated_at", "volume_driver"},
     _normalize_magnum_service |->
        {"binary", "created_at", "disabled_reason", "host", "id", "report_count",
         "state", "updated_at"}]

\* The keys whose absence is an error, and the optional keys of a template.
RequiredKeys ==
    [_normalize_coe_cluster |-> {"uuid"},
     _normalize_cluster_template |->
        {"uuid", "public", "registry_enabled", "tls_disabled",
         "apiserver_port", "cluster_distro", "coe", "created_at", "dns_nameserver",
         "docker_volume_size", "external_network_id", "flavor_id", "image_id",
         "insecure_registry", "keypair_id", "name", "network_driver", "server_type",
         "updated_at", "volume_driver"},
     _normalize_magnum_service |->
        {"binary", "created_at", "disabled_reason", "host", "id", "report_count",
         "state", "updated_at"}]

OptionalTemplateKeys ==
    {"fixed_network", "fixed_subnet", "http_proxy", "https_proxy", "labels",
     "master_flavor_id", "no_proxy"}

\* C4: whichever normalizer returned, the properties of its output are the
\* input record without the keys its schema consumes and without links,
\* human_id and model_name.
C4_PropertiesAreTheRemainder ==
    (norm.done /\ norm.returned) =>
        norm.properties =
            Restrict(norm.input,
                     DOMAIN norm.input \ (ConsumedKeys[norm.fn] \cup Noise))

\* C5: a cluster-template or Magnum-service record lacking a required key
\* makes the normalizer raise and return no record; with every required key
\* there it returns, and an optional template key the input lacks is in
\* neither the output nor its properties.
C5_MissingRequiredKeyRaises ==
    (norm.done /\ norm.fn \in {"_normalize_cluster_template", "_normalize_magnum_service"}) =>
        IF RequiredKeys[norm.fn] \ DOMAIN norm.input # {}
        THEN /\ norm.raised \in RequiredKeys[norm.fn] \ DOMAIN norm.input
             /\ ~norm.returned
             /\ norm.ret = EmptyDict
        ELSE /\ norm.raised = ""
             /\ norm.returned
             /\ \A k \in OptionalTemplateKeys \ DOMAIN norm.input :
                    k \notin DOMAIN norm.ret /\ k \notin DOMAIN norm.properties

\* A template record without 'coe', refused.
C5_Witness ==
    /\ norm.done
    /\ norm.fn = "_normalize_cluster_template"
    /\ "coe" \notin DOMAIN norm.input
    /\ norm.raised = "coe"
    /\ ~norm.returned

\* C9: once a normalizer is over, returned or raised, the caller's record has
\* the keys and the values it had before the call.
C9_CallerRecordUntouched ==
    norm.done => norm.caller = norm.input

\* A call that returned properties smaller than its input, keys having been
\* popped from the working record.
C9_Witness ==
    /\ norm.done
    /\ norm.returned
    /\ DOMAIN norm.properties # DOMAIN norm.input
    /\ "links" \in DOMAIN norm.input
    /\ norm.caller = norm.input

====
